---- MODULE Spec2Model ----
(***************************************************************************)
(* Energy Monitoring API (src/main.py): a FastAPI service over one SQLite  *)
(* database with the tables meters, meter_readings and meter_status.       *)
(*                                                                         *)
(* Every handler is an `async def` without an await inside, so one handler *)
(* runs to completion before the next starts: one action per handler.      *)
(* Time is counted in whole hours; a stored 'YYYY-MM-DD HH:MM:SS' string   *)
(* is the hour it denotes (SQLite compares the strings, which orders them  *)
(* as the hours are ordered).  Measurements are integers standing for the  *)
(* floats of the payload.                                                  *)
(***************************************************************************)
EXTENDS Integers, Sequences, FiniteSets, TLC

VARIABLES
    meters,          \* table meters: sequence of rows, in rowid order
    meter_readings,  \* table meter_readings: sequence of rows, in rowid order
    meter_status,    \* table meter_status: sequence of rows, in rowid order
    now,             \* the wall clock (UTC hours), read by utcnow() and datetime('now')
    req,             \* the request served last and the clock reading it was served at
    resp,            \* the value the handler returned for req
    conn,            \* what became of the connection the last handler opened
    accepted         \* history: the payloads whose ingestion returned success

vars == <<meters, meter_readings, meter_status, now, req, resp, conn, accepted>>
tables == <<meters, meter_readings, meter_status>>

----------------------------------------------------------------------------
(* Bounds of the exploration. *)

MaxNow == 1          \* the clock runs from 0 to MaxNow
MaxReadings == 2     \* ingestions accepted in the specification Spec
BulkMaxOld == 1      \* SpecBulk: readings stored before the clock stops advancing
BulkExtra == 1       \* SpecBulk: readings stored beyond LIMIT

(* Program constants. *)

Limit == 100         \* LIMIT 100 of the readings query
DefaultHours == 24   \* hours: int = 24

----------------------------------------------------------------------------
(* Optional[...] values and SQL NULL: <<>> is None/NULL, <<v>> is v. *)

None == <<>>
Some(v) == <<v>>

(* Mutant of Get: data.get(key, 0.0), a default of zero for an absent key. *)
GetOrZero(d, key) == IF key \in DOMAIN d THEN d[key] ELSE <<0>>

(* dict.get(key): the value under key, None when the key is absent. *)
Get(d, key) == IF key \in DOMAIN d THEN d[key] ELSE None

(* Truth value of an Optional[Dict]: None and the empty dict are falsy. *)
Truthy(od) == od # None /\ DOMAIN od[1] # {}

EmptyDict == [k \in {} |-> None]

----------------------------------------------------------------------------
(* The timestamp string of a payload: dt is the wall-clock hour written in *)
(* it, tz the suffix after it: "" (naive), "Z", "+HH:00"/"-HH:00", or text *)
(* that is no ISO-8601 suffix.                                             *)

(* data.timestamp.replace("Z", "+00:00") *)
ReplaceZ(ts) == IF ts.tz = "Z" THEN [ts EXCEPT !.tz = "+00:00"] ELSE ts

(* utcoffset, in hours, of the suffixes datetime.fromisoformat accepts. *)
OffsetOf(tz) ==
    CASE tz = "+00:00" -> 0
      [] tz = "+01:00" -> 1
      [] tz = "-01:00" -> 0 - 1
      [] OTHER -> 0

(* datetime.fromisoformat: a naive or an aware datetime, or ValueError. *)
FromIsoFormat(ts) ==
    CASE ts.tz = "" -> [ok |-> TRUE, wall |-> ts.dt, utcoffset |-> None]
      [] ts.tz \in {"+00:00", "+01:00", "-01:00"} ->
            [ok |-> TRUE, wall |-> ts.dt, utcoffset |-> Some(OffsetOf(ts.tz))]
      [] OTHER -> [ok |-> FALSE, wall |-> 0, utcoffset |-> None]

(* strftime("%Y-%m-%d %H:%M:%S"): the wall-clock fields of the datetime as *)
(* they stand; the utcoffset is not applied and not written.               *)
Strftime(d) == d.wall

----------------------------------------------------------------------------
(* init_database: CREATE TABLE IF NOT EXISTS leaves existing tables alone, *)
(* INSERT OR IGNORE adds each seed meter whose id is not in the table yet, *)
(* with the column defaults created_at = CURRENT_TIMESTAMP, is_active = 1. *)

SeedMeters ==
    << [id |-> "meter_001", description |-> "Primary energy meter"],
       [id |-> "meter_002", description |-> "Secondary meter A"],
       [id |-> "meter_003", description |-> "Secondary meter B"],
       [id |-> "meter_004", description |-> "Secondary meter C"] >>

HasMeter(tbl, id) == \E i \in DOMAIN tbl : tbl[i].id = id

InsertOrIgnoreMeter(tbl, seed, clock) ==
    IF HasMeter(tbl, seed.id) THEN tbl
    ELSE Append(tbl, [id |-> seed.id, description |-> seed.description,
                      created_at |-> clock, is_active |-> TRUE])

RECURSIVE InsertSeeds(_, _, _)
InsertSeeds(tbl, seeds, clock) ==
    IF seeds = <<>> THEN tbl
    ELSE InsertSeeds(InsertOrIgnoreMeter(tbl, Head(seeds), clock), Tail(seeds), clock)

init_database(tbl, clock) == InsertSeeds(tbl, SeedMeters, clock)

----------------------------------------------------------------------------
(* receive_meter_data: the row of the INSERT INTO meter_readings.  id is   *)
(* the AUTOINCREMENT key: one more than the largest id ever used, which    *)
(* with no deletion is the number of rows plus one.                        *)

ReadingRow(id, data, dt) ==
    [ id |-> id,
      meter_id |-> data.meter_id,
      location |-> data.location,
      timestamp |-> dt,
      voltage_r |-> Get(data.voltages, "V_RN"),
      voltage_y |-> Get(data.voltages, "V_YN"),
      voltage_b |-> Get(data.voltages, "V_BN"),
      voltage_avg |-> Get(data.voltages, "V_Avg"),
      voltage_ry |-> Get(data.voltages, "V_RY"),
      voltage_yb |-> Get(data.voltages, "V_YB"),
      voltage_br |-> Get(data.voltages, "V_BR"),
      current_r |-> Get(data.currents, "I_R"),
      current_y |-> Get(data.currents, "I_Y"),
      current_b |-> Get(data.currents, "I_B"),
      current_n |-> Get(data.currents, "I_N"),
      power_r |-> Get(data.power, "P_R"),
      power_y |-> Get(data.power, "P_Y"),
      power_b |-> Get(data.power, "P_B"),
      power_total |-> Get(data.power, "P_Total"),
      reactive_power_r |->
          IF Truthy(data.reactive_power) THEN Get(data.reactive_power[1], "Q_R") ELSE None,
      reactive_power_y |->
          IF Truthy(data.reactive_power) THEN Get(data.reactive_power[1], "Q_Y") ELSE None,
      reactive_power_b |->
          IF Truthy(data.reactive_power) THEN Get(data.reactive_power[1], "Q_B") ELSE None,
      reactive_power_total |->
          IF Truthy(data.reactive_power) THEN Get(data.reactive_power[1], "Q_Total") ELSE None,
      apparent_power_r |->
          IF Truthy(data.apparent_power) THEN Get(data.apparent_power[1], "S_R") ELSE None,
      apparent_power_y |->
          IF Truthy(data.apparent_power) THEN Get(data.apparent_power[1], "S_Y") ELSE None,
      apparent_power_b |->
          IF Truthy(data.apparent_power) THEN Get(data.apparent_power[1], "S_B") ELSE None,
      apparent_power_total |->
          IF Truthy(data.apparent_power) THEN Get(data.apparent_power[1], "S_Total") ELSE None,
      power_factor_r |-> Get(data.power_factors, "PF_R"),
      power_factor_y |-> Get(data.power_factors, "PF_Y"),
      power_factor_b |-> Get(data.power_factors, "PF_B"),
      power_factor_avg |-> Get(data.power_factors, "PF_Avg"),
      frequency |-> data.frequency ]

(* Mutant of InsertReading: INSERT OR REPLACE keyed by meter and timestamp, *)
(* which overwrites the stored reading of the same meter and hour.         *)
InsertOrReplaceReading(readings, data, dt) ==
    IF \E i \in DOMAIN readings :
            readings[i].meter_id = data.meter_id /\ readings[i].timestamp = dt
    THEN [i \in DOMAIN readings |->
            IF readings[i].meter_id = data.meter_id /\ readings[i].timestamp = dt
            THEN ReadingRow(i, data, dt) ELSE readings[i]]
    ELSE Append(readings, ReadingRow(Len(readings) + 1, data, dt))

InsertReading(readings, data, dt) ==
    Append(readings, ReadingRow(Len(readings) + 1, data, dt))

(* Mutant of UpsertStatus: a plain INSERT, without the ON CONFLICT clause   *)
(* and without a key to raise on.                                          *)
InsertStatusAlways(status, meter_id, utc_now) ==
    Append(status, [meter_id |-> meter_id, online |-> TRUE,
                    last_update |-> Some(utc_now), created_at |-> utc_now])

(* Mutant of UpsertStatus: the update binds its parameters in the wrong     *)
(* order, so that an existing row gets online = FALSE.                      *)
UpsertStatusOffline(status, meter_id, utc_now) ==
    IF \E i \in DOMAIN status : status[i].meter_id = meter_id
    THEN [i \in DOMAIN status |->
            IF status[i].meter_id = meter_id
            THEN [status[i] EXCEPT !.online = FALSE, !.last_update = Some(utc_now)]
            ELSE status[i]]
    ELSE Append(status, [meter_id |-> meter_id, online |-> TRUE,
                         last_update |-> Some(utc_now), created_at |-> utc_now])

(* INSERT INTO meter_status ... ON CONFLICT(meter_id) DO UPDATE SET        *)
(* online = ?, last_update = ? with (True, utc_now): the row of meter_id   *)
(* is overwritten in place, or a new row is added (created_at defaulting   *)
(* to CURRENT_TIMESTAMP).                                                  *)
UpsertStatus(status, meter_id, utc_now) ==
    IF \E i \in DOMAIN status : status[i].meter_id = meter_id
    THEN [i \in DOMAIN status |->
            IF status[i].meter_id = meter_id
            THEN [status[i] EXCEPT !.online = TRUE, !.last_update = Some(utc_now)]
            ELSE status[i]]
    ELSE Append(status, [meter_id |-> meter_id, online |-> TRUE,
                         last_update |-> Some(utc_now), created_at |-> utc_now])

(* Mutant of Committed: a connection in autocommit mode, where the reading *)
(* insert is durable before the status upsert runs.                        *)
CommittedAutocommit(before, afterInsert, afterUpsert, failed) ==
    IF failed THEN afterInsert ELSE afterUpsert

(* What the request leaves committed.  The two writes run in the implicit  *)
(* transaction of the connection and conn.commit() follows both; a request *)
(* that raises anywhere before the commit has completed never commits, and *)
(* its pending writes are discarded with the connection.                   *)
Committed(before, afterInsert, afterUpsert, failed) ==
    IF failed THEN before ELSE afterUpsert

(* The points of a request at which the store can raise. *)
IngestFaults == {"none", "connect", "insert", "upsert", "commit"}
QueryFaults == {"none", "connect", "select"}

(* What became of the connection: conn.close() is called on the success    *)
(* path only; the except branch returns without closing.  A failed         *)
(* sqlite3.connect leaves no connection at all.                            *)
ConnAfter(fault, raised) ==
    IF fault = "connect" THEN "none"
    ELSE IF raised THEN "leaked"
    ELSE "closed"

SuccessResp == [kind |-> "ack", status |-> "success", data |-> <<>>]
ErrorResp == [kind |-> "error", status |-> "error", data |-> <<>>]

receive_meter_data(data, fault) ==
    LET parsed == FromIsoFormat(ReplaceZ(data.timestamp))
        raised == fault # "none" \/ ~parsed.ok
        dt == Strftime(parsed)
        before == [readings |-> meter_readings, status |-> meter_status]
        afterInsert == [before EXCEPT !.readings = InsertReading(@, data, dt)]
        afterUpsert == [afterInsert EXCEPT !.status = UpsertStatus(@, data.meter_id, now)]
        after == Committed(before, afterInsert, afterUpsert, raised)
    IN  /\ meter_readings' = after.readings
        /\ meter_status' = after.status
        /\ meters' = meters
        /\ now' = now
        /\ req' = [op |-> "ingest", arg |-> data, fault |-> fault, at |-> now]
        /\ resp' = IF raised THEN ErrorResp ELSE SuccessResp
        /\ conn' = ConnAfter(fault, raised)
        /\ accepted' = IF raised THEN accepted ELSE accepted \cup {data}

----------------------------------------------------------------------------
(* get_meters: SELECT m.id, ms.online, ms.last_update FROM meters m        *)
(* LEFT JOIN meter_status ms ON m.id = ms.meter_id WHERE m.is_active = 1.  *)
(* A meter row joins every status row of its id, and a row of NULLs when   *)
(* there is none.                                                          *)

JoinStatus(m, status) ==
    LET matches == SelectSeq(status, LAMBDA ms : ms.meter_id = m.id)
    IN  IF matches = <<>> THEN << <<m.id, None, None>> >>
        ELSE [i \in DOMAIN matches |->
                <<m.id, Some(matches[i].online), matches[i].last_update>>]

RECURSIVE LeftJoin(_, _)
LeftJoin(ms, status) ==
    IF ms = <<>> THEN <<>>
    ELSE JoinStatus(Head(ms), status) \o LeftJoin(Tail(ms), status)

(* Mutant of SelectMeters: the query without WHERE m.is_active = 1. *)
SelectAllMeters(tbl, status) == LeftJoin(tbl, status)

SelectMeters(tbl, status) ==
    LeftJoin(SelectSeq(tbl, LAMBDA m : m.is_active = TRUE), status)

(* One entry of the "meters" list, from one fetched row. *)
MeterEntry(row) ==
    [ meter_id |-> row[1],
      online |-> IF row[2] # None THEN row[2][1] ELSE FALSE,
      last_update |-> row[3] ]

get_meters(fault) ==
    LET raised == fault # "none"
        rows == SelectMeters(meters, meter_status)
    IN  /\ req' = [op |-> "meters", arg |-> <<>>, fault |-> fault, at |-> now]
        /\ resp' = IF raised THEN ErrorResp
                   ELSE [kind |-> "meters", status |-> "",
                         data |-> [i \in DOMAIN rows |-> MeterEntry(rows[i])]]
        /\ conn' = ConnAfter(fault, raised)
        /\ UNCHANGED <<meters, meter_readings, meter_status, now, accepted>>

----------------------------------------------------------------------------
(* get_meter_readings. *)

(* datetime('now', f'-{hours} hours'): the clock minus hours; for negative *)
(* hours the modifier reads '--N hours', which SQLite does not accept, and *)
(* datetime() is NULL.                                                     *)
DatetimeNowMinus(clock, hours) ==
    IF hours >= 0 THEN Some(clock - hours) ELSE None

(* Mutant of WhereReadings: the query without the timestamp condition. *)
WhereMeterOnly(readings, meter_id, cutoff) ==
    SelectSeq(readings, LAMBDA r : r.meter_id = meter_id)

(* WHERE meter_id = ? AND timestamp >= datetime('now', ?): a comparison    *)
(* with NULL is not true.                                                  *)
WhereReadings(readings, meter_id, cutoff) ==
    SelectSeq(readings, LAMBDA r :
        r.meter_id = meter_id /\ cutoff # None /\ r.timestamp >= cutoff[1])

MaxOf(S) == CHOOSE x \in S : \A y \in S : y <= x

Reverse(s) == [i \in 1..Len(s) |-> s[Len(s) + 1 - i]]

(* ORDER BY timestamp DESC.  SQL leaves the order of rows with equal       *)
(* timestamps open; tie picks the scan order or its reverse among them.    *)
RECURSIVE SortDesc(_, _, _)
SortDesc(rows, stamps, tie) ==
    IF stamps = {} THEN <<>>
    ELSE LET t == MaxOf(stamps)
             same == SelectSeq(rows, LAMBDA r : r.timestamp = t)
         IN  (IF tie = "rowid" THEN same ELSE Reverse(same))
                 \o SortDesc(rows, stamps \ {t}, tie)

(* Mutant of OrderByTimestampDesc: ORDER BY timestamp, ascending. *)
OrderByTimestampAsc(rows, tie) ==
    Reverse(SortDesc(rows, {rows[i].timestamp : i \in DOMAIN rows}, tie))

OrderByTimestampDesc(rows, tie) ==
    SortDesc(rows, {rows[i].timestamp : i \in DOMAIN rows}, tie)

Ties == {"rowid", "reverse"}

(* LIMIT 100 *)
LimitRows(rows) ==
    SubSeq(rows, 1, IF Len(rows) < Limit THEN Len(rows) ELSE Limit)

SelectReadings(readings, meter_id, clock, hours, tie) ==
    LimitRows(OrderByTimestampDesc(
        WhereReadings(readings, meter_id, DatetimeNowMinus(clock, hours)), tie))

(* One entry of the "readings" list, from one fetched row. *)
ReadingEntry(row) ==
    [ timestamp |-> row.timestamp,
      voltages |-> [ V_RN |-> row.voltage_r, V_YN |-> row.voltage_y,
                     V_BN |-> row.voltage_b, V_Avg |-> row.voltage_avg,
                     V_RY |-> row.voltage_ry, V_YB |-> row.voltage_yb,
                     V_BR |-> row.voltage_br ],
      currents |-> [ I_R |-> row.current_r, I_Y |-> row.current_y,
                     I_B |-> row.current_b, I_N |-> row.current_n ],
      power |-> [ P_R |-> row.power_r, P_Y |-> row.power_y,
                  P_B |-> row.power_b, P_Total |-> row.power_total ],
      reactive_power |-> [ Q_R |-> row.reactive_power_r, Q_Y |-> row.reactive_power_y,
                           Q_B |-> row.reactive_power_b,
                           Q_Total |-> row.reactive_power_total ],
      apparent_power |-> [ S_R |-> row.apparent_power_r, S_Y |-> row.apparent_power_y,
                           S_B |-> row.apparent_power_b,
                           S_Total |-> row.apparent_power_total ],
      power_factors |-> [ PF_R |-> row.power_factor_r, PF_Y |-> row.power_factor_y,
                          PF_B |-> row.power_factor_b, PF_Avg |-> row.power_factor_avg ],
      frequency |-> row.frequency ]

(* The response carries meter_id and the entries; rowids (the ids of the   *)
(* fetched rows, in order) is kept beside them to state properties with    *)
(* and is no part of the body sent.                                        *)
get_meter_readings(meter_id, hours, fault, tie) ==
    LET raised == fault # "none"
        rows == SelectReadings(meter_readings, meter_id, now, hours, tie)
    IN  /\ req' = [op |-> "readings", arg |-> [meter_id |-> meter_id, hours |-> hours],
                   fault |-> fault, at |-> now]
        /\ resp' = IF raised THEN ErrorResp
                   ELSE [kind |-> "readings", status |-> "",
                         data |-> [meter_id |-> meter_id,
                                   readings |-> [i \in DOMAIN rows |-> ReadingEntry(rows[i])],
                                   rowids |-> [i \in DOMAIN rows |-> rows[i].id]]]
        /\ conn' = ConnAfter(fault, raised)
        /\ UNCHANGED <<meters, meter_readings, meter_status, now, accepted>>

(* root: GET / acknowledges and touches neither the store nor a connection. *)
root ==
    /\ req' = [op |-> "root", arg |-> <<>>, fault |-> "none", at |-> now]
    /\ resp' = [kind |-> "root", status |-> "", data |-> <<>>]
    /\ conn' = "none"
    /\ UNCHANGED <<meters, meter_readings, meter_status, now, accepted>>

(* The clock advances. *)
TickTo(limit) ==
    /\ now < limit
    /\ now' = now + 1
    /\ UNCHANGED <<meters, meter_readings, meter_status, req, resp, conn, accepted>>

----------------------------------------------------------------------------
(* Inputs. *)

(* The measurement part of a payload.  BodyA is the example of the         *)
(* interface description; BodyB has every group present, with null values, *)
(* zeros, a key the service does not know and a reactive_power mapping     *)
(* that is present and empty; BodyC has empty groups, no frequency, and    *)
(* reactive_power and apparent_power mappings with null and zero values.   *)
BodyA ==
    [ voltages |-> [V_RN |-> Some(2301)],
      currents |-> [I_R |-> Some(52)],
      power |-> [P_Total |-> Some(11500)],
      power_factors |-> [PF_Avg |-> Some(95)],
      frequency |-> Some(500),
      reactive_power |-> None,
      apparent_power |-> None ]

BodyB ==
    [ voltages |-> [V_RN |-> Some(2290), V_YN |-> None, V_BN |-> Some(0),
                    V_Avg |-> Some(2295), V_RY |-> Some(3980), V_YB |-> Some(3981),
                    V_BR |-> Some(3982), V_XX |-> Some(7)],
      currents |-> [I_R |-> Some(11), I_Y |-> Some(12), I_B |-> Some(13), I_N |-> Some(0)],
      power |-> [P_R |-> Some(21), P_Y |-> Some(22), P_B |-> Some(23), P_Total |-> Some(66)],
      power_factors |-> [PF_R |-> Some(91), PF_Y |-> Some(92), PF_B |-> Some(93),
                         PF_Avg |-> Some(94)],
      frequency |-> Some(499),
      reactive_power |-> Some(EmptyDict),
      apparent_power |-> Some([S_R |-> Some(31), S_Y |-> Some(32), S_B |-> Some(33),
                               S_Total |-> Some(96)]) ]

BodyC ==
    [ voltages |-> EmptyDict,
      currents |-> EmptyDict,
      power |-> [P_R |-> None],
      power_factors |-> EmptyDict,
      frequency |-> None,
      reactive_power |-> Some([Q_R |-> Some(41), Q_Y |-> Some(42), Q_B |-> None,
                               Q_Total |-> Some(0)]),
      apparent_power |-> Some([S_Total |-> None]) ]

MeterData(meter_id, dt, tz, location, body) ==
    [ meter_id |-> meter_id,
      timestamp |-> [dt |-> dt, tz |-> tz],
      location |-> location,
      voltages |-> body.voltages,
      currents |-> body.currents,
      power |-> body.power,
      power_factors |-> body.power_factors,
      frequency |-> body.frequency,
      reactive_power |-> body.reactive_power,
      apparent_power |-> body.apparent_power ]

(* The payloads posted: UTC, offset and unparseable timestamps, in         *)
(* the past, the present and the future of the clock, for a seeded meter   *)
(* and for an id the meters table may not hold.                            *)
Payloads ==
    { MeterData("meter_001", 1, "Z", "Main", BodyA),
      MeterData("meter_001", 0, "+01:00", "Main", BodyB),
      MeterData("meter_x", 0, "-01:00", "Annex", BodyC),
      MeterData("meter_001", 3, "Z", "Main", BodyC),
      MeterData("meter_001", 1, "yesterday", "Main", BodyA) }

QueryIds == {"meter_001", "meter_x"}
Hours == {0 - 1, 0, DefaultHours}

(* The meters table as a provisioning step left it before startup: not     *)
(* there yet, or with an extra meter and a seeded id deactivated.          *)
PreMeters ==
    { <<>>,
      << [id |-> "meter_x", description |-> "annex", created_at |-> 0,
          is_active |-> TRUE],
         [id |-> "meter_002", description |-> "retired", created_at |-> 0,
          is_active |-> FALSE] >> }

----------------------------------------------------------------------------
(* The service: startup_event has run init_database on the store it found. *)

NoReq == [op |-> "none", arg |-> <<>>, fault |-> "none", at |-> 0]
NoResp == [kind |-> "none", status |-> "", data |-> <<>>]

InitWith(pre) ==
    /\ meters = init_database(pre, 0)
    /\ meter_readings = <<>>
    /\ meter_status = <<>>
    /\ now = 0
    /\ req = NoReq
    /\ resp = NoResp
    /\ conn = "none"
    /\ accepted = {}

Init == \E pre \in PreMeters : InitWith(pre)

(* MaxReadings caps the requests that can store a reading; one in which    *)
(* the store fails is served at any time.                                  *)
Ingest ==
    \E data \in Payloads, fault \in IngestFaults :
        /\ Len(meter_readings) < MaxReadings \/ fault # "none"
        /\ receive_meter_data(data, fault)

ListMeters == \E fault \in QueryFaults : get_meters(fault)

QueryReadings ==
    \E meter_id \in QueryIds, hours \in Hours, fault \in QueryFaults, tie \in Ties :
        get_meter_readings(meter_id, hours, fault, tie)

Tick == TickTo(MaxNow)

Next == Ingest \/ ListMeters \/ QueryReadings \/ root \/ Tick

Spec == Init /\ [][Next]_vars

----------------------------------------------------------------------------
(* SpecBulk: one meter posting the reading of the current hour again and   *)
(* again, until the table holds more rows than the readings query returns. *)
(* A second meter may post the first reading, and the clock advances only  *)
(* while the table is still small.                                         *)

BurstData(clock) ==
    MeterData("meter_001", clock, "Z", "Main", IF clock = 0 THEN BodyB ELSE BodyA)

OtherData(clock) == MeterData("meter_x", clock, "Z", "Annex", BodyC)

InitBulk == InitWith(<<>>)

BulkIngest ==
    /\ Len(meter_readings) < Limit + BulkExtra
    /\ receive_meter_data(BurstData(now), "none")

OtherIngest ==
    /\ meter_readings = <<>>
    /\ receive_meter_data(OtherData(now), "none")

BulkQuery ==
    \E tie \in Ties : get_meter_readings("meter_001", DefaultHours, "none", tie)

BulkTick ==
    /\ Len(meter_readings) <= BulkMaxOld
    /\ TickTo(MaxNow)

NextBulk == BulkIngest \/ OtherIngest \/ BulkQuery \/ BulkTick

SpecBulk == InitBulk /\ [][NextBulk]_vars

----------------------------------------------------------------------------
(* Vocabulary of the properties. *)

VoltageKeys == {"V_RN", "V_YN", "V_BN", "V_Avg", "V_RY", "V_YB", "V_BR"}
CurrentKeys == {"I_R", "I_Y", "I_B", "I_N"}
PowerKeys == {"P_R", "P_Y", "P_B", "P_Total"}
ReactiveKeys == {"Q_R", "Q_Y", "Q_B", "Q_Total"}
ApparentKeys == {"S_R", "S_Y", "S_B", "S_Total"}
PowerFactorKeys == {"PF_R", "PF_Y", "PF_B", "PF_Avg"}

(* The value a payload gives under a key of a group: null when the key is  *)
(* absent, and null when the whole (optional) group is absent.             *)
Given(group, key) == IF key \in DOMAIN group THEN group[key] ELSE None
GivenOpt(group, key) == IF group = None THEN None ELSE Given(group[1], key)

(* The 28 measurement fields of a readings entry are those of payload p. *)
EntryMatches(e, p) ==
    /\ DOMAIN e.voltages = VoltageKeys
    /\ \A k \in VoltageKeys : e.voltages[k] = Given(p.voltages, k)
    /\ DOMAIN e.currents = CurrentKeys
    /\ \A k \in CurrentKeys : e.currents[k] = Given(p.currents, k)
    /\ DOMAIN e.power = PowerKeys
    /\ \A k \in PowerKeys : e.power[k] = Given(p.power, k)
    /\ DOMAIN e.reactive_power = ReactiveKeys
    /\ \A k \in ReactiveKeys : e.reactive_power[k] = GivenOpt(p.reactive_power, k)
    /\ DOMAIN e.apparent_power = ApparentKeys
    /\ \A k \in ApparentKeys : e.apparent_power[k] = GivenOpt(p.apparent_power, k)
    /\ DOMAIN e.power_factors = PowerFactorKeys
    /\ \A k \in PowerFactorKeys : e.power_factors[k] = Given(p.power_factors, k)
    /\ e.frequency = p.frequency

(* The last request was a readings query, answered with a readings list. *)
AnsweredReadings == req.op = "readings" /\ resp.kind = "readings"

(* The stored readings of the queried meter whose timestamp is not earlier *)
(* than the clock reading of the query minus its hours.                    *)
InWindow ==
    { k \in DOMAIN meter_readings :
        /\ meter_readings[k].meter_id = req.arg.meter_id
        /\ req.arg.hours >= 0
        /\ meter_readings[k].timestamp >= req.at - req.arg.hours }

Returned == { resp.data.rowids[i] : i \in DOMAIN resp.data.rowids }

(* The window of the query reaches back to the timestamp written in p. *)
Covers(p) ==
    /\ p.meter_id = req.arg.meter_id
    /\ req.arg.hours >= 0
    /\ p.timestamp.dt >= req.at - req.arg.hours

(* At most LIMIT readings in the window, the one of p among them, carry a  *)
(* timestamp not earlier than the one written in p.                        *)
NotCrowdedOut(p) ==
    Cardinality({ k \in InWindow : meter_readings[k].timestamp >= p.timestamp.dt }) <= Limit

----------------------------------------------------------------------------
(* C1 as stated: every accepted payload of the queried meter whose         *)
(* timestamp the window covers comes back as an entry whose 28 measurement *)
(* fields equal the payload's, absent keys and absent groups as null.      *)
C1_RoundTripAlways ==
    AnsweredReadings =>
        \A p \in accepted :
            Covers(p) =>
                \E i \in DOMAIN resp.data.readings : EntryMatches(resp.data.readings[i], p)

(* C1 as amended: the same, for every accepted payload that at most        *)
(* LIMIT - 1 other readings of the window crowd out (readings of the same  *)
(* meter with a timestamp not earlier than the payload's).                 *)
C1_RoundTripWithinLimit ==
    AnsweredReadings =>
        \A p \in accepted :
            (Covers(p) /\ NotCrowdedOut(p)) =>
                \E i \in DOMAIN resp.data.readings : EntryMatches(resp.data.readings[i], p)

(* C1 witness: a query over more matching readings than LIMIT returns the  *)
(* entry of a payload that left keys and whole groups out.                 *)
C1_Witness ==
    /\ AnsweredReadings
    /\ Cardinality(InWindow) > Limit
    /\ \E p \in accepted :
        /\ Covers(p) /\ NotCrowdedOut(p)
        /\ p.reactive_power = None
        /\ "V_YN" \notin DOMAIN p.voltages
        /\ \E i \in DOMAIN resp.data.readings :
            /\ EntryMatches(resp.data.readings[i], p)
            /\ resp.data.readings[i].voltages["V_YN"] = None
            /\ resp.data.readings[i].voltages["V_RN"] = Some(2301)

----------------------------------------------------------------------------
(* C5: a readings query returns at most LIMIT entries, each the entry of a *)
(* distinct stored reading of the requested meter, in non-increasing       *)
(* timestamp order; a matching reading is left out only when LIMIT entries *)
(* are returned, and then it is not later than any returned one.  A query  *)
(* the store answers for a meter without matching readings returns the     *)
(* empty list, not an error.                                               *)
C5_NewestAtMostLimit ==
    /\ (req.op = "readings" /\ req.fault = "none") => resp.kind = "readings"
    /\ AnsweredReadings =>
        LET es == resp.data.readings
            ids == resp.data.rowids
        IN  /\ Len(es) <= Limit
            /\ Len(ids) = Len(es)
            /\ Cardinality(Returned) = Len(es)
            /\ resp.data.meter_id = req.arg.meter_id
            /\ \A i \in DOMAIN es :
                /\ ids[i] \in DOMAIN meter_readings
                /\ meter_readings[ids[i]].id = ids[i]
                /\ meter_readings[ids[i]].meter_id = req.arg.meter_id
                /\ es[i] = ReadingEntry(meter_readings[ids[i]])
                /\ i < Len(es) => es[i].timestamp >= es[i + 1].timestamp
            /\ \A k \in InWindow \ Returned :
                /\ Len(es) = Limit
                /\ \A i \in DOMAIN es : meter_readings[k].timestamp <= es[i].timestamp
            /\ (InWindow = {}) => es = <<>>

(* C5 witness: more than LIMIT readings match, LIMIT entries come back and *)
(* an older reading is left out.                                           *)
C5_Witness ==
    /\ AnsweredReadings
    /\ Cardinality(InWindow) > Limit
    /\ Len(resp.data.readings) = Limit
    /\ \E k \in InWindow \ Returned :
        meter_readings[k].timestamp < resp.data.readings[Limit].timestamp

----------------------------------------------------------------------------
(* The ids with at least one successful ingestion. *)
IngestedIds == { p.meter_id : p \in accepted }

StatusRows(id) == { i \in DOMAIN meter_status : meter_status[i].meter_id = id }

(* C2: meter_status holds exactly one row for each meter_id that has had a *)
(* successful ingestion and no row for any other meter_id.                 *)
C2_OneStatusRowPerIngestedMeter ==
    /\ \A id \in IngestedIds : Cardinality(StatusRows(id)) = 1
    /\ \A i \in DOMAIN meter_status : meter_status[i].meter_id \in IngestedIds

(* C2 witness: two ingestions for the same meter succeeded, the second an  *)
(* hour after the first, and its one status row carries the later hour.    *)
C2_Witness ==
    /\ Len(meter_readings) = 2
    /\ meter_readings[1].meter_id = meter_readings[2].meter_id
    /\ Len(meter_status) = 1
    /\ meter_status[1].meter_id = meter_readings[2].meter_id
    /\ meter_status[1].created_at = 0
    /\ meter_status[1].last_update = Some(1)

----------------------------------------------------------------------------
(* C3: every meter with a successful ingestion has a status row with       *)
(* online = TRUE, and a status row that has online = TRUE has it after     *)
(* every step, whichever request is served.                                *)
C3_OnlineLatched ==
    /\ [](\A id \in IngestedIds : \E i \in StatusRows(id) : meter_status[i].online = TRUE)
    /\ [][\A i \in DOMAIN meter_status :
            meter_status[i].online = TRUE =>
                \E j \in DOMAIN meter_status' :
                    /\ meter_status'[j].meter_id = meter_status[i].meter_id
                    /\ meter_status'[j].online = TRUE]_vars

(* C3 witness: a meter that is online, after a second ingestion for it     *)
(* that succeeded and a third that failed.                                 *)
C3_Witness ==
    /\ req.op = "ingest" /\ resp.kind = "error"
    /\ Len(meter_readings) = 2
    /\ meter_readings[1].meter_id = req.arg.meter_id
    /\ meter_readings[2].meter_id = req.arg.meter_id
    /\ \E i \in StatusRows(req.arg.meter_id) : meter_status[i].online = TRUE

----------------------------------------------------------------------------
ActiveIds == { meters[i].id : i \in { k \in DOMAIN meters : meters[k].is_active = TRUE } }

(* C4: the meters list holds exactly the active meters of the meters       *)
(* table, one entry each; an entry without a status row has online = FALSE *)
(* and last_update = null, an entry with one carries its online and        *)
(* last_update.                                                            *)
C4_ActiveMetersListed ==
    (req.op = "meters" /\ resp.kind = "meters") =>
        LET es == resp.data
        IN  /\ { es[i].meter_id : i \in DOMAIN es } = ActiveIds
            /\ Len(es) = Cardinality(ActiveIds)
            /\ \A i \in DOMAIN es :
                /\ StatusRows(es[i].meter_id) = {} =>
                        (es[i].online = FALSE /\ es[i].last_update = None)
                /\ \A k \in StatusRows(es[i].meter_id) :
                        /\ es[i].online = meter_status[k].online
                        /\ es[i].last_update = meter_status[k].last_update

(* C4 witness: a list that leaves out a deactivated meter and holds a      *)
(* meter with a status row and one without.                                *)
C4_Witness ==
    /\ req.op = "meters" /\ resp.kind = "meters"
    /\ \E k \in DOMAIN meters : meters[k].is_active = FALSE
    /\ \E i \in DOMAIN resp.data :
        resp.data[i].online = TRUE /\ resp.data[i].last_update # None
    /\ \E i \in DOMAIN resp.data :
        resp.data[i].online = FALSE /\ resp.data[i].last_update = None

----------------------------------------------------------------------------
(* C6 as stated: every returned reading has a timestamp not earlier than   *)
(* the clock minus hours and not later than the clock.                     *)
C6_WithinWindow ==
    AnsweredReadings =>
        \A i \in DOMAIN resp.data.readings :
            /\ resp.data.readings[i].timestamp >= req.at - req.arg.hours
            /\ resp.data.readings[i].timestamp <= req.at

(* C6 as amended: every returned reading has a stored timestamp not        *)
(* earlier than the clock minus hours, and nothing is returned for         *)
(* negative hours; the window has no upper end.                            *)
C6_NotBeforeWindow ==
    AnsweredReadings =>
        /\ \A i \in DOMAIN resp.data.readings :
            resp.data.readings[i].timestamp >= req.at - req.arg.hours
        /\ req.arg.hours < 0 => resp.data.readings = <<>>

(* C6 witness: a query that leaves out a stored reading of the meter older *)
(* than the window and returns one.                                        *)
C6_Witness ==
    /\ AnsweredReadings
    /\ resp.data.readings # <<>>
    /\ \E k \in DOMAIN meter_readings :
        /\ meter_readings[k].meter_id = req.arg.meter_id
        /\ meter_readings[k].timestamp < req.at - req.arg.hours
        /\ k \notin Returned

----------------------------------------------------------------------------
(* The UTC offset, in hours, a timestamp string carries. *)
HasOffset(ts) == ts.tz \in {"Z", "+00:00", "+01:00", "-01:00"}
UtcHour(ts) ==
    ts.dt - (CASE ts.tz = "+01:00" -> 1 [] ts.tz = "-01:00" -> 0 - 1 [] OTHER -> 0)

(* C7: after a successful ingestion of a payload whose timestamp carries a *)
(* UTC offset, the stored timestamp is that instant expressed in UTC.      *)
C7_StoredInUtc ==
    (req.op = "ingest" /\ resp.kind = "ack" /\ HasOffset(req.arg.timestamp)) =>
        meter_readings[Len(meter_readings)].timestamp = UtcHour(req.arg.timestamp)

----------------------------------------------------------------------------
Parseable(ts) == ts.tz \in {"", "Z", "+00:00", "+01:00", "-01:00"}

(* C8: a request to ingest that meets an unparseable timestamp or a store  *)
(* failure is answered with the error response, and leaves meter_readings  *)
(* and meter_status as they were.                                          *)
C8_FailedIngestionChangesNothing ==
    [][(req'.op = "ingest" /\ (req'.fault # "none" \/ ~Parseable(req'.arg.timestamp))) =>
            /\ resp' = ErrorResp
            /\ meter_readings' = meter_readings
            /\ meter_status' = meter_status]_vars

(* C8 witness: an ingestion for a meter without a status row failed at the *)
(* status upsert, after its reading insert.                                *)
C8_Witness ==
    /\ req.op = "ingest" /\ req.fault = "upsert" /\ Parseable(req.arg.timestamp)
    /\ resp = ErrorResp
    /\ Len(meter_readings) = 1
    /\ meter_readings[1].meter_id # req.arg.meter_id
    /\ StatusRows(req.arg.meter_id) = {}

----------------------------------------------------------------------------
(* C9: when a handler that opened a connection has returned, it has closed *)
(* the connection.                                                         *)
C9_ConnectionClosed ==
    (req.op \in {"ingest", "meters", "readings"} /\ conn # "none") => conn = "closed"

----------------------------------------------------------------------------
(* C10: a stored reading is never changed or removed; a step changes       *)
(* meter_readings only by a successful ingestion, which adds exactly one   *)
(* row; no step changes the meters table; the two queries change no table. *)
C10_AppendOnly ==
    [][ /\ Len(meter_readings') >= Len(meter_readings)
        /\ SubSeq(meter_readings', 1, Len(meter_readings)) = meter_readings
        /\ meters' = meters
        /\ (now' = now /\ req'.op = "ingest" /\ resp'.kind = "ack") =>
                Len(meter_readings') = Len(meter_readings) + 1
        /\ meter_readings' # meter_readings =>
                /\ req'.op = "ingest" /\ resp'.kind = "ack"
                /\ Len(meter_readings') = Len(meter_readings) + 1
        /\ req'.op \in {"meters", "readings", "root"} =>
                /\ meter_readings' = meter_readings
                /\ meter_status' = meter_status ]_vars

(* C10 witness: a second reading of the same meter and hour was stored,    *)
(* for an id the meters table does not hold.                               *)
C10_Witness ==
    /\ req.op = "ingest" /\ resp.kind = "ack"
    /\ ~HasMeter(meters, req.arg.meter_id)
    /\ Len(meter_readings) = 2
    /\ meter_readings[1].meter_id = meter_readings[2].meter_id
    /\ meter_readings[1].timestamp = meter_readings[2].timestamp

====
